---- MODULE Spec2Model ----
(***************************************************************************)
(* papermes: the ledger client (firefly_client), the transaction request   *)
(* mapper and the accounts resource of the MCP server (mcp_server.server). *)
(*                                                                         *)
(* Conventions.  An Optional[...] value of the Python code is a sequence:  *)
(* None is <<>> and a present value v is <<v>>.  A text (an error message, *)
(* an f-string) is the sequence of the pieces it is formatted from, so     *)
(* that "the text contains X" is the presence of the piece X.              *)
(***************************************************************************)
EXTENDS Integers, Sequences, FiniteSets, TLC

VARIABLES
    config,       \* the settings the server process was started with
    pc,           \* "idle": no call in progress; "returned": a call has ended
    op,           \* the operation of the last call
    transactions, \* create_transactions: the request list as given by the caller
    group_title,  \* create_transactions: the group title given (Optional)
    callArg,      \* a client operation's id argument (Optional)
    http,         \* the HTTP requests sent to the ledger during the call
    reply,        \* what the ledger did with the request sent (Optional)
    splits,       \* create_transactions: the splits built so far
    session,      \* what happened to the HTTP session of the call's client, in order
    image,        \* the receipt image of the call: "present" or "missing" (Optional)
    oracle,       \* what the model oracle answered, if it was invoked (Optional)
    mcp,          \* the requests the orchestrator sent to the MCP server, in order
    given,        \* create_* helpers: the arguments of the call (Optional)
    stages,       \* the stages of the receipt analysis reached by the call, in order
    clients,      \* two FireflyClient instances and the httpx clients they use
    result        \* the outcome of the call: a returned value or a raised exception

vars == <<config, pc, op, transactions, group_title, callArg, http, reply, splits,
          session, image, oracle, mcp, given, stages, clients, result>>

(***************************************************************************)
(* Bounds and input sets                                                   *)
(***************************************************************************)
MaxReqs == 2
MaxItems == 2
MaxInstances == 2
MaxSent == 2

None == <<>>
Some(v) == <<v>>
IsNone(o) == Len(o) = 0
IsSome(o) == Len(o) = 1
Get(o) == o[1]

TextContains(text, piece) == \E i \in DOMAIN text : text[i] = piece

(***************************************************************************)
(* FireflyAPIError and the other exception classes that occur.             *)
(***************************************************************************)
FireflyAPIError(message, status_code) ==
    [cls |-> "FireflyAPIError", message |-> message, status_code |-> status_code]

OtherError(cls, message) ==
    [cls |-> cls, message |-> message, status_code |-> None]

\* The outcome of a Python call: it returns a value or raises an exception.
Return(v) == [raised |-> None, value |-> Some(v)]
Raise(e) == [raised |-> Some(e), value |-> None]
Raised(o) == IsSome(o.raised)
Returned(o) == IsNone(o.raised)

(***************************************************************************)
(* The ledger's answers.  A JSON value is an object (with the keys the     *)
(* client reads: message, error, data), an array or a number; a body is    *)
(* its raw text together with what response.json() makes of it             *)
(* ("invalid": json() raises).                                             *)
(***************************************************************************)
JsonObject(message, error, data) ==
    [kind |-> "object", message |-> message, error |-> error, data |-> data]
JsonArray == [kind |-> "array", message |-> None, error |-> None, data |-> None]
JsonNumber == [kind |-> "number", message |-> None, error |-> None, data |-> None]
NotJson == [kind |-> "invalid", message |-> None, error |-> None, data |-> None]

LedgerAccount(id, name, type, notes, currency_code) ==
    [id |-> id, name |-> name, type |-> type, notes |-> notes,
     currency_code |-> currency_code]

Checking == LedgerAccount("1", "Checking", "asset", None, Some("EUR"))
Groceries == LedgerAccount("2", "Groceries", "expense", Some("food"), None)
Crypto == LedgerAccount("3", "Wallet", "crypto", None, None)

TransactionData == [shape |-> "transaction", id |-> 42]
AccountsData == [shape |-> "accounts", items |-> <<Checking, Groceries>>]
NoAccountsData == [shape |-> "accounts", items |-> <<>>]
NewKindAccountsData == [shape |-> "accounts", items |-> <<Checking, Crypto>>]
AccountData == [shape |-> "account", item |-> Checking]

Body(text, json) == [text |-> text, json |-> json]

EmptyBody == Body("", NotJson)
BlankBody == Body(" ", NotJson)
HtmlBody == Body("<html>Bad Gateway</html>", NotJson)
MessageBody == Body("{message}", JsonObject(Some("Duplicate of transaction #12"), None, None))
ErrorBody == Body("{error}", JsonObject(None, Some("Unauthenticated"), None))
BothBody == Body("{message,error}", JsonObject(Some("Resource not found"), Some("NotFound"), None))
OtherBody == Body("{errors}", JsonObject(None, None, None))
ArrayBody == Body("[]", JsonArray)
NumberBody == Body("0", JsonNumber)
TransactionBody == Body("{data:transaction}", JsonObject(None, None, Some(TransactionData)))
AccountsBody == Body("{data:accounts}", JsonObject(None, None, Some(AccountsData)))
NoAccountsBody == Body("{data:[]}", JsonObject(None, None, Some(NoAccountsData)))
NewKindAccountsBody == Body("{data:accounts+}", JsonObject(None, None, Some(NewKindAccountsData)))
AccountBody == Body("{data:account}", JsonObject(None, None, Some(AccountData)))

Bodies ==
    {EmptyBody, BlankBody, HtmlBody, MessageBody, ErrorBody, BothBody, OtherBody,
     ArrayBody, NumberBody, TransactionBody, AccountsBody, NoAccountsBody,
     NewKindAccountsBody, AccountBody}

Statuses == {200, 204, 400, 404, 422, 500}

\* httpx's exceptions for a request that got no response.  All of them derive
\* from httpx.RequestError; the timeouts also derive from httpx.TimeoutException.
TransportFailures == {"ConnectError", "ConnectTimeout", "ReadTimeout"}
IsTimeoutException(exc) == exc \in {"ConnectTimeout", "ReadTimeout"}
IsRequestError(exc) == exc \in {"ConnectError"} \/ IsTimeoutException(exc)

Response(status_code, body) ==
    [kind |-> "response", status_code |-> status_code, body |-> body, exc |-> "-"]
Failure(exc) ==
    [kind |-> "failure", status_code |-> 0, body |-> EmptyBody, exc |-> exc]

Replies ==
    {Response(s, b) : s \in Statuses, b \in Bodies} \cup {Failure(e) : e \in TransportFailures}

Request(method, endpoint, data) ==
    [method |-> method, endpoint |-> endpoint, data |-> data]

(***************************************************************************)
(* The client as a scoped resource.  The events of its HTTP session are    *)
(* "open" (__init__ creates the httpx.Client), "request" (one per request  *)
(* sent) and "close" (httpx.Client.close()).                               *)
(***************************************************************************)
\* __exit__ that closes the session only when the block ended normally.
ExitOnSuccessOnly(outcome) == IF Raised(outcome) THEN <<>> ELSE <<"close">>

\* FireflyClient.__exit__(exc_type, exc_val, exc_tb): close(), whatever way the
\* block ended; it returns None, so an exception goes on to the caller.
Exit(outcome) == <<"close">>

\* with FireflyClient(...) as client: <block>, where the block sends the
\* requests `sent` and ends with `outcome`.  No session exists if the
\* constructor raises.
ClientScope(client, sent, outcome) ==
    IF Raised(client) THEN <<>>
    ELSE <<"open">> \o [i \in DOMAIN sent |-> "request"] \o Exit(outcome)

(***************************************************************************)
(* FireflyClient._make_request                                             *)
(***************************************************************************)
\* The message of the error raised for a response with status >= 400.
ErrorMessage(response) ==
    LET generic == <<"HTTP ", ToString(response.status_code)>>
        json == response.body.json
        text == response.body.text
        fallback == IF text # "" THEN <<text>> ELSE generic
    IN  CASE json.kind = "invalid" -> fallback              \* response.json() raises
          [] json.kind = "object" ->
                IF IsSome(json.message) THEN <<Get(json.message)>>
                ELSE IF IsSome(json.error) THEN <<Get(json.error)>>
                ELSE generic
          [] json.kind = "array" -> generic                 \* "message" in [] is False
          [] OTHER -> fallback                              \* "message" in 0 raises TypeError

HasContent(body) == body.text \notin {"", " "}            \* response.content.strip()

\* Transmit sending the request a second time when the first attempt got an
\* error status or no response.
TransmitWithRetry(request, rep) ==
    IF rep.kind = "failure" \/ rep.status_code >= 400
    THEN <<request, request>> ELSE <<request>>

\* The requests _make_request puts on the wire for one call: self.client.request
\* is called once, outside any loop, whatever the ledger does with it.
Transmit(request, rep) == <<request>>

\* _make_request letting a success body that is empty or not JSON raise.
MakeRequestStrictJson(rep) ==
    IF rep.kind = "failure"
    THEN Raise(FireflyAPIError(<<"Request failed: ", rep.exc>>, None))
    ELSE IF rep.status_code >= 400
    THEN Raise(FireflyAPIError(ErrorMessage(rep), Some(rep.status_code)))
    ELSE IF rep.body.json.kind # "invalid"
    THEN Return(Some(rep.body.json))
    ELSE Raise(OtherError("JSONDecodeError", <<"Expecting value">>))

\* _make_request treating only statuses above 400 as errors.
MakeRequestAbove400(rep) ==
    IF rep.kind = "failure"
    THEN Raise(FireflyAPIError(<<"Request failed: ", rep.exc>>, None))
    ELSE IF rep.status_code > 400
    THEN Raise(FireflyAPIError(ErrorMessage(rep), Some(rep.status_code)))
    ELSE IF HasContent(rep.body) /\ rep.body.json.kind # "invalid"
    THEN Return(Some(rep.body.json))
    ELSE Return(None)

\* _make_request reporting a timeout with the status 408.
MakeRequestTimeoutAs408(rep) ==
    IF rep.kind = "failure"
    THEN IF IsTimeoutException(rep.exc)
         THEN Raise(FireflyAPIError(<<"Request timed out">>, Some(408)))
         ELSE Raise(FireflyAPIError(<<"Request failed: ", rep.exc>>, None))
    ELSE IF rep.status_code >= 400
    THEN Raise(FireflyAPIError(ErrorMessage(rep), Some(rep.status_code)))
    ELSE IF HasContent(rep.body) /\ rep.body.json.kind # "invalid"
    THEN Return(Some(rep.body.json))
    ELSE Return(None)

\* What _make_request returns or raises, given what the ledger did.
MakeRequest(rep) ==
    IF rep.kind = "failure"
    THEN IF IsRequestError(rep.exc)
         THEN Raise(FireflyAPIError(<<"Request failed: ", rep.exc>>, None))
         ELSE IF IsTimeoutException(rep.exc)
         THEN Raise(FireflyAPIError(<<"Request timed out">>, None))
         ELSE Raise(OtherError(rep.exc, <<rep.exc>>))
    ELSE IF rep.status_code >= 400
    THEN Raise(FireflyAPIError(ErrorMessage(rep), Some(rep.status_code)))
    ELSE IF HasContent(rep.body) /\ rep.body.json.kind # "invalid"
    THEN Return(Some(rep.body.json))
    ELSE Return(None)

(***************************************************************************)
(* The pydantic models of firefly_client                                   *)
(***************************************************************************)
AccountType ==
    {"asset", "expense", "import", "revenue", "cash", "liability", "liabilities",
     "initial-balance", "reconciliation"}

TransactionType ==
    {"withdrawal", "deposit", "transfer", "reconciliation", "opening balance"}

\* Strings that pydantic's lax mode turns into an int (Optional[int] fields).
IntOf == ("1" :> 1) @@ ("2" :> 2) @@ ("3" :> 3)
\* Strings that parse as a Decimal, as coefficient and decimal places.
DecimalOf == ("15.99" :> [coef |-> 1599, places |-> 2]) @@
             ("8.50" :> [coef |-> 850, places |-> 2]) @@
             ("123.45" :> [coef |-> 12345, places |-> 2]) @@
             ("100.00" :> [coef |-> 10000, places |-> 2])
\* str(amount) of a Decimal: the integer part, and the decimal places if any.
RECURSIVE Digits(_, _)
Digits(n, width) ==
    IF width = 0 THEN "" ELSE Digits(n \div 10, width - 1) \o ToString(n % 10)

RECURSIVE Pow10(_)
Pow10(n) == IF n = 0 THEN 1 ELSE 10 * Pow10(n - 1)

DecimalText(d) ==
    IF d.places = 0 THEN ToString(d.coef)
    ELSE ToString(d.coef \div Pow10(d.places)) \o "." \o
         Digits(d.coef % Pow10(d.places), d.places)

\* An amount as a caller of the client gives it: a str, a float or a Decimal,
\* written as text.
Amount(form, text) == [form |-> form, text |-> text]

\* repr() of a float: the shortest decimal that gives the float back, with at
\* least one decimal place (8.50 is 8.5, 100.00 is 100.0).
RECURSIVE FloatRepr(_)
FloatRepr(d) ==
    IF d.places > 1 /\ d.coef % 10 = 0
    THEN FloatRepr([coef |-> d.coef \div 10, places |-> d.places - 1])
    ELSE d

\* ToDecimal taking every amount through a float.
ToDecimalViaFloat(amount) == FloatRepr(DecimalOf[amount.text])

\* The Decimal pydantic makes of an amount: a str or a Decimal digit for
\* digit, a float through its repr.
ToDecimal(amount) ==
    IF amount.form = "float" THEN FloatRepr(DecimalOf[amount.text])
    ELSE DecimalOf[amount.text]

\* Strings that parse as a calendar date, and the date each gives.
Date(year, month, day) == [year |-> year, month |-> month, day |-> day]
Today == Date(2026, 1, 5)
DateOf == ("2025-01-15" :> Date(2025, 1, 15)) @@ ("2026-01-05" :> Today)

\* date.isoformat(): YYYY-MM-DD
IsoFormat(d) == Digits(d.year, 4) \o "-" \o Digits(d.month, 2) \o "-" \o Digits(d.day, 2)

\* A ledger account record validates as firefly_client.Account.
AccountValid(a) == a.id \in DOMAIN IntOf /\ a.type \in AccountType

\* AccountsList(**response_data); response_data is _make_request's return value.
ParseAccountsList(response_data) ==
    IF IsNone(response_data) THEN Raise(OtherError("TypeError", <<"argument after ** must be a mapping">>))
    ELSE LET json == Get(response_data)
         IN  IF json.kind # "object"
             THEN Raise(OtherError("TypeError", <<"argument after ** must be a mapping">>))
             ELSE IF IsNone(json.data)
             THEN Raise(OtherError("ValidationError", <<"validation error for AccountsList", "data">>))
             ELSE IF Get(json.data).shape # "accounts"
             THEN Raise(OtherError("ValidationError", <<"validation error for AccountsList", "data">>))
             ELSE IF \E i \in DOMAIN Get(json.data).items : ~AccountValid(Get(json.data).items[i])
             THEN Raise(OtherError("ValidationError", <<"validation error for AccountsList", "data">>))
             ELSE Return(Get(json.data).items)

\* Account(**response_data["data"])
ParseAccount(response_data) ==
    IF IsNone(response_data) THEN Raise(OtherError("TypeError", <<"'NoneType' object is not subscriptable">>))
    ELSE LET json == Get(response_data)
         IN  IF json.kind # "object"
             THEN Raise(OtherError("TypeError", <<"indices must be integers">>))
             ELSE IF IsNone(json.data)
             THEN Raise(OtherError("KeyError", <<"data">>))
             ELSE IF Get(json.data).shape = "accounts"
             THEN Raise(OtherError("TypeError", <<"argument after ** must be a mapping">>))
             ELSE IF Get(json.data).shape # "account"
             THEN Raise(OtherError("ValidationError", <<"validation error for Account", "attributes">>))
             ELSE IF ~AccountValid(Get(json.data).item)
             THEN Raise(OtherError("ValidationError", <<"validation error for Account", "attributes">>))
             ELSE Return(Get(json.data).item)

\* TransactionResponse(**response_data)
ParseTransactionResponse(response_data) ==
    IF IsNone(response_data) THEN Raise(OtherError("TypeError", <<"argument after ** must be a mapping">>))
    ELSE LET json == Get(response_data)
         IN  IF json.kind # "object"
             THEN Raise(OtherError("TypeError", <<"argument after ** must be a mapping">>))
             ELSE IF IsNone(json.data)
             THEN Raise(OtherError("ValidationError", <<"validation error for TransactionResponse", "data">>))
             ELSE IF Get(json.data).shape # "transaction"
             THEN Raise(OtherError("ValidationError", <<"validation error for TransactionResponse", "data">>))
             ELSE Return(Get(json.data))

\* The fields of the keyword arguments that TransactionSplit(...) rejects, in
\* the order of the model's fields.
SplitErrors(kw) ==
    SelectSeq(<<"type", "date", "amount", "description", "source_id", "destination_id">>,
        LAMBDA f :
            CASE f = "type" -> kw.type \notin TransactionType
              [] f = "date" -> kw.date \notin DOMAIN DateOf
              [] f = "amount" -> kw.amount \notin DOMAIN DecimalOf
              [] f = "description" -> IsNone(kw.description)
              [] f = "source_id" -> IsSome(kw.source_id) /\ Get(kw.source_id) \notin DOMAIN IntOf
              [] f = "destination_id" ->
                    IsSome(kw.destination_id) /\ Get(kw.destination_id) \notin DOMAIN IntOf)

CoerceId(o) == IF IsNone(o) THEN None ELSE Some(IntOf[Get(o)])

\* TransactionSplit(**kw): the validated split, or pydantic's ValidationError.
TransactionSplit(kw) ==
    IF SplitErrors(kw) # <<>>
    THEN Raise(OtherError("ValidationError",
                          <<"validation error for TransactionSplit">> \o SplitErrors(kw)))
    ELSE Return([type |-> kw.type,
                 date |-> DateOf[kw.date],
                 amount |-> DecimalOf[kw.amount],
                 description |-> Get(kw.description),
                 source_id |-> CoerceId(kw.source_id),
                 source_name |-> kw.source_name,
                 destination_id |-> CoerceId(kw.destination_id),
                 destination_name |-> kw.destination_name,
                 currency_code |-> kw.currency_code,
                 category_name |-> kw.category_name,
                 budget_name |-> kw.budget_name,
                 notes |-> kw.notes,
                 tags |-> kw.tags,
                 extra |-> <<>>])

(***************************************************************************)
(* The five operations of FireflyClient.  Each sends one request and       *)
(* turns what _make_request gives into its result.                         *)
(***************************************************************************)
GetAccountsRequest == Request("GET", <<"/accounts">>, None)
ClientGetAccounts(rep) ==
    IF Raised(MakeRequest(rep)) THEN MakeRequest(rep)
    ELSE ParseAccountsList(Get(MakeRequest(rep).value))

GetAccountRequest(account_id) == Request("GET", <<"/accounts/", ToString(account_id)>>, None)
ClientGetAccount(account_id, rep) ==
    IF Raised(MakeRequest(rep)) THEN MakeRequest(rep)
    ELSE ParseAccount(Get(MakeRequest(rep).value))

\* TransactionStore(...) as store_transaction builds it (lines 417-423).
TransactionStore(transaction_splits, title) ==
    [error_if_duplicate_hash |-> TRUE, apply_rules |-> TRUE, fire_webhooks |-> TRUE,
     group_title |-> title, transactions |-> transaction_splits]

\* Keyword arguments (**kwargs) are a sequence of <<name, value>> pairs.
HasKeyword(kwargs, name) == \E i \in DOMAIN kwargs : kwargs[i][1] = name
KeywordValue(kwargs, name) == kwargs[CHOOSE i \in DOMAIN kwargs : kwargs[i][1] = name][2]
KeywordOrNone(kwargs, name) ==
    IF HasKeyword(kwargs, name) THEN Some(KeywordValue(kwargs, name)) ELSE None

SplitOptionalFields ==
    {"source_id", "source_name", "destination_id", "destination_name", "currency_code",
     "category_name", "budget_name", "notes", "tags"}

\* model_dump() of a split, without exclude_none: a field that is None is
\* written as null.
DumpSplitWithNulls(split) ==
    LET present == {"type", "date", "amount", "description"} \cup SplitOptionalFields
        extras == {split.extra[i][1] : i \in DOMAIN split.extra}
    IN  [k \in present \cup extras |->
            CASE k = "amount" -> DecimalText(split.amount)
              [] k = "date" -> IsoFormat(split.date)
              [] k \in {"type", "description"} -> split[k]
              [] k \in SplitOptionalFields ->
                    IF split[k] = None THEN "null" ELSE Get(split[k])
              [] OTHER -> KeywordValue(split.extra, k)]

\* model_dump(exclude_none=True) of a split: the fields that are not None,
\* the amount and the date through their serializers.
DumpSplit(split) ==
    LET present == {"type", "date", "amount", "description"}
                   \cup {k \in SplitOptionalFields : split[k] # None}
        extras == {split.extra[i][1] : i \in DOMAIN split.extra}
    IN  [k \in present \cup extras |->
            CASE k = "amount" -> DecimalText(split.amount)
              [] k = "date" -> IsoFormat(split.date)
              [] k \in {"type", "description"} -> split[k]
              [] k \in SplitOptionalFields -> Get(split[k])
              [] OTHER -> KeywordValue(split.extra, k)]

\* model_dump(exclude_none=True) of the store request.
DumpStore(store) ==
    LET present == {"error_if_duplicate_hash", "apply_rules", "fire_webhooks", "transactions"}
                   \cup (IF store.group_title # None THEN {"group_title"} ELSE {})
    IN  [k \in present |->
            CASE k = "transactions" ->
                    [i \in DOMAIN store.transactions |-> DumpSplit(store.transactions[i])]
              [] k = "group_title" -> Get(store.group_title)
              [] OTHER -> store[k]]

StoreTransactionRequest(transaction_splits, title) ==
    Request("POST", <<"/transactions">>,
            Some(DumpStore(TransactionStore(transaction_splits, title))))
ClientStoreTransaction(transaction_splits, title, rep) ==
    IF Raised(MakeRequest(rep)) THEN MakeRequest(rep)
    ELSE ParseTransactionResponse(Get(MakeRequest(rep).value))

DeleteTransactionRequest(id) == Request("DELETE", <<"/transactions/", ToString(id)>>, None)
ClientDeleteTransaction(id, rep) ==
    IF Raised(MakeRequest(rep)) THEN MakeRequest(rep) ELSE Return(None)

DeleteTransactionJournalRequest(id) == Request("DELETE", <<"/transaction-journals/", ToString(id)>>, None)
ClientDeleteTransactionJournal(id, rep) ==
    IF Raised(MakeRequest(rep)) THEN MakeRequest(rep) ELSE Return(None)

(***************************************************************************)
(* The helpers create_withdrawal, create_deposit and create_transfer.      *)
(***************************************************************************)
\* TransactionSplit(...) as the helpers call it, with typed arguments: the
\* amount may be a str, a float or a Decimal; keyword arguments that name no
\* field spelled out here are kept as they are (extra = "allow").
TransactionSplitOf(type, date, amount, description, source_id, source_name, destination_id, destination_name, category_name, budget_name, notes, tags, kwargs) ==
    IF amount.text \notin DOMAIN DecimalOf
    THEN Raise(OtherError("ValidationError",
                          <<"validation error for TransactionSplit", "amount">>))
    ELSE Return([type |-> type,
                 date |-> date,
                 amount |-> ToDecimal(amount),
                 description |-> description,
                 source_id |-> source_id,
                 source_name |-> source_name,
                 destination_id |-> destination_id,
                 destination_name |-> destination_name,
                 currency_code |-> KeywordOrNone(kwargs, "currency_code"),
                 category_name |-> category_name,
                 budget_name |-> budget_name,
                 notes |-> notes,
                 tags |-> tags,
                 extra |-> SelectSeq(kwargs, LAMBDA kv : kv[1] \notin SplitOptionalFields)])

\* The parameters store_transaction accepts by keyword besides the splits.
StoreParameters == {"group_title", "error_if_duplicate_hash", "apply_rules", "fire_webhooks"}

\* return self.store_transaction([transaction_split], **kwargs): a keyword
\* store_transaction does not have makes the call itself fail.
StoreOneSplit(split, kwargs, rep) ==
    IF Raised(split)
    THEN [result |-> split, splits |-> <<>>, http |-> <<>>]
    ELSE IF \E i \in DOMAIN kwargs : kwargs[i][1] \notin StoreParameters
    THEN [result |-> Raise(OtherError("TypeError",
                        <<"store_transaction() got an unexpected keyword argument">>)),
          splits |-> <<Get(split.value)>>, http |-> <<>>]
    ELSE [result |-> ClientStoreTransaction(<<Get(split.value)>>,
                                            KeywordOrNone(kwargs, "group_title"), rep),
          splits |-> <<Get(split.value)>>,
          http |-> Transmit(StoreTransactionRequest(<<Get(split.value)>>,
                                                    KeywordOrNone(kwargs, "group_title")), rep)]

\* The arguments of a helper call; source is an account id, or for a deposit
\* an account name.
HelperArguments(amount, description, source, destination, date, category_name, kwargs) ==
    [amount |-> amount, description |-> description, source |-> source,
     destination |-> destination, date |-> date, category_name |-> category_name,
     kwargs |-> kwargs]

\* if date is None: date = datetime.now().date()
DateOrToday(date) == IF IsNone(date) THEN Today ELSE Get(date)

\* create_withdrawal (lines 430-477): the keyword arguments go to
\* store_transaction only.
CreateWithdrawal(a, rep) ==
    StoreOneSplit(
        TransactionSplitOf("withdrawal", DateOrToday(a.date), a.amount, a.description,
                           Some(a.source), None, Some(a.destination), None,
                           a.category_name, None, None, None, <<>>),
        a.kwargs, rep)

\* create_deposit (lines 479-524): the keyword arguments go to the split and
\* to store_transaction.
CreateDeposit(a, rep) ==
    StoreOneSplit(
        TransactionSplitOf("deposit", DateOrToday(a.date), a.amount, a.description,
                           None, Some(a.source), Some(a.destination), None,
                           a.category_name, None, None, None, a.kwargs),
        a.kwargs, rep)

\* create_transfer with the two accounts exchanged.
CreateTransferSwapped(a, rep) ==
    StoreOneSplit(
        TransactionSplitOf("transfer", DateOrToday(a.date), a.amount, a.description,
                           Some(a.destination), None, Some(a.source), None,
                           None, None, None, None, a.kwargs),
        a.kwargs, rep)

\* create_transfer (lines 526-568): as create_deposit; it has no category.
CreateTransfer(a, rep) ==
    StoreOneSplit(
        TransactionSplitOf("transfer", DateOrToday(a.date), a.amount, a.description,
                           Some(a.source), None, Some(a.destination), None,
                           None, None, None, None, a.kwargs),
        a.kwargs, rep)

(***************************************************************************)
(* mcp_server.server: configuration, TransactionRequest, the mapper        *)
(***************************************************************************)
Settings(host, access_token) ==
    [host |-> host, access_token |-> access_token, default_currency |-> "USD"]

\* The settings a server process may run with: complete, without an access
\* token (FireflyConfig's default), with an empty host.
Configs ==
    {Settings("http://localhost:8080", Some("token")),
     Settings("http://localhost:8080", None),
     Settings("", Some("token"))}

\* get_firefly_client(): what entering the with-block raises, if anything.
GetFireflyClient(cfg) ==
    IF IsNone(cfg.access_token)
    THEN Raise(OtherError("AttributeError", <<"'NoneType' object has no attribute 'get_secret_value'">>))
    ELSE IF cfg.host = "" THEN Raise(OtherError("ValueError", <<"Firefly III host must be provided">>))
    ELSE IF Get(cfg.access_token) = "" THEN Raise(OtherError("ValueError", <<"Access token must be provided">>))
    ELSE Return("client")

\* A request as the caller gives it; an absent key is None.
RawRequest(type, source_account, destination_account, amount, description, date) ==
    [type |-> type, source_account |-> source_account,
     destination_account |-> destination_account, amount |-> amount,
     currency_code |-> None, description |-> description, date |-> date,
     category_name |-> None, budget_name |-> None, notes |-> None, tags |-> None]

\* TransactionRequest's required fields: type, amount, description.
TransactionRequestErrors(raw) ==
    SelectSeq(<<"type", "amount", "description">>,
        LAMBDA f : CASE f = "type" -> IsNone(raw.type)
                     [] f = "amount" -> IsNone(raw.amount)
                     [] f = "description" -> IsNone(raw.description))

IsTransactionRequest(raw) == TransactionRequestErrors(raw) = <<>>

\* Resolve with the withdrawal's source taken as an account id.
ResolveWithdrawalSourceById(tx_request) ==
    LET t == Get(tx_request.type)
    IN  CASE t = "withdrawal" ->
               [valid |-> TRUE, source_id |-> tx_request.source_account, source_name |-> None,
                destination_id |-> None, destination_name |-> tx_request.destination_account]
          [] t = "deposit" ->
               [valid |-> TRUE, source_id |-> None, source_name |-> tx_request.source_account,
                destination_id |-> tx_request.destination_account, destination_name |-> None]
          [] t = "transfer" ->
               [valid |-> TRUE, source_id |-> tx_request.source_account, source_name |-> None,
                destination_id |-> tx_request.destination_account, destination_name |-> None]
          [] OTHER ->
               [valid |-> FALSE, source_id |-> None, source_name |-> None,
                destination_id |-> None, destination_name |-> None]

\* Resolve without the else branch: any other type is mapped like a withdrawal.
ResolveWithoutTypeCheck(tx_request) ==
    LET t == Get(tx_request.type)
    IN  CASE t = "deposit" ->
               [valid |-> TRUE, source_id |-> None, source_name |-> tx_request.source_account,
                destination_id |-> tx_request.destination_account, destination_name |-> None]
          [] t = "transfer" ->
               [valid |-> TRUE, source_id |-> tx_request.source_account, source_name |-> None,
                destination_id |-> tx_request.destination_account, destination_name |-> None]
          [] OTHER ->
               [valid |-> TRUE, source_id |-> None, source_name |-> tx_request.source_account,
                destination_id |-> None, destination_name |-> tx_request.destination_account]

\* Source and destination of the split, by the request's type (lines 175-186);
\* "invalid" for any other type.
Resolve(tx_request) ==
    LET t == Get(tx_request.type)
    IN  CASE t = "withdrawal" ->
               [valid |-> TRUE, source_id |-> None, source_name |-> tx_request.source_account,
                destination_id |-> None, destination_name |-> tx_request.destination_account]
          [] t = "deposit" ->
               [valid |-> TRUE, source_id |-> None, source_name |-> tx_request.source_account,
                destination_id |-> tx_request.destination_account, destination_name |-> None]
          [] t = "transfer" ->
               [valid |-> TRUE, source_id |-> tx_request.source_account, source_name |-> None,
                destination_id |-> tx_request.destination_account, destination_name |-> None]
          [] OTHER ->
               [valid |-> FALSE, source_id |-> None, source_name |-> None,
                destination_id |-> None, destination_name |-> None]

\* The keyword arguments of TransactionSplit(...) for one request (lines 194-212).
SplitArguments(tx_request, cfg) ==
    LET r == Resolve(tx_request)
    IN  [type |-> Get(tx_request.type),
         date |-> IF IsSome(tx_request.date) /\ Get(tx_request.date) # ""
                  THEN Get(tx_request.date) ELSE IsoFormat(Today),
         amount |-> Get(tx_request.amount),
         description |-> tx_request.description,
         source_id |-> r.source_id,
         source_name |-> r.source_name,
         destination_id |-> r.destination_id,
         destination_name |-> r.destination_name,
         currency_code |-> IF IsSome(tx_request.currency_code) /\ Get(tx_request.currency_code) # ""
                           THEN tx_request.currency_code ELSE Some(cfg.default_currency),
         category_name |-> tx_request.category_name,
         budget_name |-> tx_request.budget_name,
         notes |-> tx_request.notes,
         tags |-> tx_request.tags]

\* A tool result: the dict's keys and their values (None for a key left out).
Dict(keys, success, error, status_code, transaction_id, message, title) ==
    [keys |-> keys, success |-> success, error |-> error, status_code |-> status_code,
     transaction_id |-> transaction_id, message |-> message, group_title |-> title]

InvalidTypeResult(type) ==
    Dict({"success", "error"}, FALSE,
         <<"Invalid transaction type: ", type,
           ". Must be 'withdrawal', 'deposit', or 'transfer'">>,
         None, None, <<>>, None)

\* The handlers of create_transactions' try block (lines 227-235).
ErrorResult(e) ==
    IF e.cls = "FireflyAPIError"
    THEN Dict({"success", "error", "status_code"}, FALSE,
              <<"Firefly API Error: ">> \o e.message, e.status_code, None, <<>>, None)
    ELSE Dict({"success", "error"}, FALSE,
              <<"Error creating transaction: ">> \o e.message, None, None, <<>>, None)

SuccessResult(data, n, title) ==
    Dict({"success", "transaction_id", "message", "group_title"}, TRUE, <<>>, None,
         Some(data.id),
         <<"Transaction created successfully with ", ToString(n), " split(s)">>, title)

\* MapRequests putting each new split in front of the splits built so far.
RECURSIVE MapRequestsNewestFirst(_, _, _, _)
MapRequestsNewestFirst(txs, i, built, cfg) ==
    IF i > Len(txs) THEN [end |-> "mapped", splits |-> built, at |-> 0, exc |-> None]
    ELSE IF ~Resolve(txs[i]).valid
    THEN [end |-> "invalid", splits |-> built, at |-> i, exc |-> None]
    ELSE LET split == TransactionSplit(SplitArguments(txs[i], cfg))
         IN  IF Raised(split)
             THEN [end |-> "raised", splits |-> built, at |-> i, exc |-> split.raised]
             ELSE MapRequestsNewestFirst(txs, i + 1, <<Get(split.value)>> \o built, cfg)

\* The loop of lines 168-213 from request i on, with the splits built so far:
\* it ends with all splits built ("mapped"), with the early return for an
\* invalid type ("invalid"), or with TransactionSplit's exception ("raised").
RECURSIVE MapRequests(_, _, _, _)
MapRequests(txs, i, built, cfg) ==
    IF i > Len(txs) THEN [end |-> "mapped", splits |-> built, at |-> 0, exc |-> None]
    ELSE IF ~Resolve(txs[i]).valid
    THEN [end |-> "invalid", splits |-> built, at |-> i, exc |-> None]
    ELSE LET split == TransactionSplit(SplitArguments(txs[i], cfg))
         IN  IF Raised(split)
             THEN [end |-> "raised", splits |-> built, at |-> i, exc |-> split.raised]
             ELSE MapRequests(txs, i + 1, Append(built, Get(split.value)), cfg)

\* Handle with the FireflyAPIError handler only.
HandleLedgerErrorsOnly(e) ==
    IF e.cls = "FireflyAPIError" THEN Return(ErrorResult(e)) ELSE Raise(e)

\* The try block of create_transactions (lines 162-235): an exception raised in
\* it is turned into a failure result by one of the two handlers.
Handle(e) == Return(ErrorResult(e))

\* create_transactions(transactions, group_title) with the ledger answering rep
\* to the request it sends, if it sends one: the result, the splits built and
\* the requests sent.
CreateTransactionsBody(txs, title, rep, cfg) ==
    LET client == GetFireflyClient(cfg)
        m == MapRequests(txs, 1, <<>>, cfg)
        stored == ClientStoreTransaction(m.splits, title, rep)
        sent == Transmit(StoreTransactionRequest(m.splits, title), rep)
    IN  IF Raised(client)
        THEN [result |-> Handle(Get(client.raised)), splits |-> <<>>, http |-> <<>>,
              session |-> ClientScope(client, <<>>, client)]
        ELSE IF m.end = "invalid"
        THEN [result |-> Return(InvalidTypeResult(Get(txs[m.at].type))),
              splits |-> m.splits, http |-> <<>>,
              session |-> ClientScope(client, <<>>, Return("dict"))]
        ELSE IF m.end = "raised"
        THEN [result |-> Handle(Get(m.exc)), splits |-> m.splits, http |-> <<>>,
              session |-> ClientScope(client, <<>>, Raise(Get(m.exc)))]
        ELSE [result |-> IF Raised(stored) THEN Handle(Get(stored.raised))
                         ELSE Return(SuccessResult(Get(stored.value), Len(m.splits), title)),
              splits |-> m.splits,
              http |-> sent,
              session |-> ClientScope(client, sent, stored)]

\* The tool as the protocol layer invokes it: the arguments are validated
\* against TransactionRequest first, and the function runs only if all pass.
CallCreateTransactions(raws, title, rep, cfg) ==
    IF \E i \in DOMAIN raws : ~IsTransactionRequest(raws[i])
    THEN LET i == CHOOSE j \in DOMAIN raws :
                     /\ ~IsTransactionRequest(raws[j])
                     /\ \A k \in 1..(j - 1) : IsTransactionRequest(raws[k])
         IN  [result |-> Raise(OtherError("ValidationError",
                               <<"validation error for TransactionRequest">>
                               \o TransactionRequestErrors(raws[i]))),
              splits |-> <<>>, http |-> <<>>, session |-> <<>>]
    ELSE CreateTransactionsBody(raws, title, rep, cfg)

\* The MCP Account of one ledger account (lines 115-122).
AccountView(a, cfg) ==
    [id |-> IntOf[a.id], name |-> a.name, type |-> a.type,
     notes |-> IF IsSome(a.notes) THEN Get(a.notes) ELSE "",
     currency_code |-> IF IsSome(a.currency_code) /\ Get(a.currency_code) # ""
                       THEN Get(a.currency_code) ELSE cfg.default_currency]

\* AccountsOnError that gives [] only for an error the ledger reported.
AccountsOnReportedErrorOnly(e) ==
    IF e.cls = "FireflyAPIError" /\ IsSome(e.status_code) THEN Return(<<>>) ELSE Raise(e)

\* The two handlers of the accounts resource (lines 127-139): both return [].
AccountsOnError(e) == Return(<<>>)

\* The accounts resource (lines 99-139).
GetAccountsResource(rep, cfg) ==
    LET client == GetFireflyClient(cfg)
        fetched == ClientGetAccounts(rep)
        sent == Transmit(GetAccountsRequest, rep)
    IN  IF Raised(client)
        THEN [result |-> AccountsOnError(Get(client.raised)), http |-> <<>>,
              session |-> ClientScope(client, <<>>, client)]
        ELSE [result |-> IF Raised(fetched) THEN AccountsOnError(Get(fetched.raised))
                         ELSE Return([i \in DOMAIN Get(fetched.value) |->
                                         AccountView(Get(fetched.value)[i], cfg)]),
              http |-> sent,
              session |-> ClientScope(client, sent, fetched)]

(***************************************************************************)
(* mcp_server.client: the receipt analysis orchestrator.  It talks to the  *)
(* MCP server (prompts, resources, tools) and to the model oracle.         *)
(***************************************************************************)
\* encode_image_to_base64(image_path): open() raises for a missing file.
EncodeImageToBase64(img) ==
    IF img = "missing"
    THEN Raise(OtherError("FileNotFoundError", <<"No such file or directory">>))
    ELSE Return("base64")

McpRequest(method, name, arguments) ==
    [method |-> method, name |-> name, arguments |-> arguments]

\* One item of response.output: its type, and for a function call the tool
\* name and the arguments (a JSON text).
OracleItem(type, name, arguments) == [type |-> type, name |-> name, arguments |-> arguments]

\* What json.loads makes of an item's arguments: json = FALSE if it raises,
\* else the object's keys (None: key absent).
Arguments(json, txs, title) == [json |-> json, transactions |-> txs, group_title |-> title]

\* transaction["type"] = "withdrawal" only where the oracle gave no type.
ForceWithdrawalIfAbsent(transaction) ==
    IF IsNone(transaction.type) THEN [transaction EXCEPT !.type = Some("withdrawal")]
    ELSE transaction

\* transaction["type"] = "withdrawal" (line 129)
ForceWithdrawal(transaction) == [transaction EXCEPT !.type = Some("withdrawal")]

\* NormalizeArguments keeping the transactions only: the other keys of the
\* arguments are dropped.
NormalizeArgumentsTransactionsOnly(args) ==
    IF Get(args.transactions) # <<>>
    THEN [args EXCEPT !.transactions =
             Some([i \in DOMAIN Get(args.transactions) |->
                      ForceWithdrawal(Get(args.transactions)[i])]),
                      !.group_title = None]
    ELSE [args EXCEPT !.group_title = None]

\* Lines 126-129: the transactions of a non-empty list are tagged in place.
NormalizeArguments(args) ==
    IF Get(args.transactions) # <<>>
    THEN [args EXCEPT !.transactions =
             Some([i \in DOMAIN Get(args.transactions) |->
                      ForceWithdrawal(Get(args.transactions)[i])])]
    ELSE args

\* NormalizeOutput without the `continue` for items that are no function calls.
RECURSIVE NormalizeEveryItem(_, _, _)
NormalizeEveryItem(output, i, functions_to_call) ==
    IF i > Len(output) THEN Return(functions_to_call)
    ELSE IF ~output[i].arguments.json
    THEN Raise(OtherError("JSONDecodeError", <<"Expecting value">>))
    ELSE IF IsNone(output[i].arguments.transactions)
    THEN Raise(OtherError("KeyError", <<"transactions">>))
    ELSE NormalizeEveryItem(output, i + 1,
             Append(functions_to_call,
                    [name |-> output[i].name, args |-> NormalizeArguments(output[i].arguments)]))

\* The loop of lines 117-133 from item i on, with the entries collected so far.
RECURSIVE NormalizeOutput(_, _, _)
NormalizeOutput(output, i, functions_to_call) ==
    IF i > Len(output) THEN Return(functions_to_call)
    ELSE IF output[i].type # "function_call"
    THEN NormalizeOutput(output, i + 1, functions_to_call)
    ELSE IF ~output[i].arguments.json
    THEN Raise(OtherError("JSONDecodeError", <<"Expecting value">>))
    ELSE IF IsNone(output[i].arguments.transactions)
    THEN Raise(OtherError("KeyError", <<"transactions">>))
    ELSE NormalizeOutput(output, i + 1,
             Append(functions_to_call,
                    [name |-> output[i].name, args |-> NormalizeArguments(output[i].arguments)]))

\* The two prompts analyze_receipt gets from the server (lines 79-86).
PromptRequests(accounts) ==
    <<McpRequest("prompts/get", "developer_bookkeeping_context", Some(accounts)),
      McpRequest("prompts/get", "user_analyze_receipt", None)>>

\* The prompt whose session.get_prompt call fails, "none" if both are
\* resolved; the call then raises McpError.
PromptFailures == {"none", "developer_bookkeeping_context", "user_analyze_receipt"}
McpError == OtherError("McpError", <<"Request timed out">>)

\* analyze_receipt catching the oracle's exception, asking the oracle once
\* more and going on with no output.
AnalyzeReceiptRetrying(accounts, failing, answer) ==
    IF failing = "developer_bookkeeping_context"
    THEN [mcp |-> SubSeq(PromptRequests(accounts), 1, 1), oracle |-> None,
          stages |-> <<>>, result |-> Raise(McpError)]
    ELSE IF failing = "user_analyze_receipt"
    THEN [mcp |-> PromptRequests(accounts), oracle |-> None,
          stages |-> <<>>, result |-> Raise(McpError)]
    ELSE IF Raised(answer)
    THEN [mcp |-> PromptRequests(accounts), oracle |-> Some(answer),
          stages |-> <<"PromptsResolved", "OracleInvoked", "OracleInvoked", "OutputNormalized">>,
          result |-> Return(<<>>)]
    ELSE [mcp |-> PromptRequests(accounts), oracle |-> Some(answer),
          stages |-> <<"PromptsResolved", "OracleInvoked">> \o
                     (IF Raised(NormalizeOutput(Get(answer.value), 1, <<>>)) THEN <<>>
                      ELSE <<"OutputNormalized">>),
          result |-> NormalizeOutput(Get(answer.value), 1, <<>>)]

\* analyze_receipt(base64_image, accounts, tools, session), the oracle
\* answering answer (a response's output, or an exception of the call).
\* stages logs the steps it gets through: both prompts resolved (lines
\* 79-86), client.responses.create called (line 89), the loop over
\* response.output left (lines 117-133).
AnalyzeReceipt(accounts, failing, answer) ==
    IF failing = "developer_bookkeeping_context"
    THEN [mcp |-> SubSeq(PromptRequests(accounts), 1, 1), oracle |-> None,
          stages |-> <<>>, result |-> Raise(McpError)]
    ELSE IF failing = "user_analyze_receipt"
    THEN [mcp |-> PromptRequests(accounts), oracle |-> None,
          stages |-> <<>>, result |-> Raise(McpError)]
    ELSE IF Raised(answer)
    THEN [mcp |-> PromptRequests(accounts), oracle |-> Some(answer),
          stages |-> <<"PromptsResolved", "OracleInvoked">>,
          result |-> answer]
    ELSE [mcp |-> PromptRequests(accounts), oracle |-> Some(answer),
          stages |-> <<"PromptsResolved", "OracleInvoked">> \o
                     (IF Raised(NormalizeOutput(Get(answer.value), 1, <<>>)) THEN <<>>
                      ELSE <<"OutputNormalized">>),
          result |-> NormalizeOutput(Get(answer.value), 1, <<>>)]

\* What main() asks of the server before it looks for the image (lines 163-191).
SessionSetup ==
    <<McpRequest("initialize", "", None), McpRequest("resources/list", "", None),
      McpRequest("tools/list", "", None), McpRequest("prompts/list", "", None),
      McpRequest("resources/read", "firefly://accounts", None)>>

\* main() with the receipt image img, the accounts read from the server and
\* the oracle answering answer (lines 147-214).  stages logs the steps of
\* the analysis: begun (line 192), image encoded (line 202), the steps of
\* analyze_receipt, every function handed to call_tool (lines 210-214).
Main(img, accounts, failing, answer) ==
    LET analysis == AnalyzeReceipt(accounts, failing, answer)
        functions_to_call == Get(analysis.result.value)
    IN  IF img = "missing"                                   \* image_path.exists()
        THEN [mcp |-> SessionSetup, oracle |-> None, stages |-> <<"Start">>,
              result |-> Return(None)]
        ELSE IF Raised(EncodeImageToBase64(img))
        THEN [mcp |-> SessionSetup, oracle |-> None, stages |-> <<"Start">>,
              result |-> EncodeImageToBase64(img)]
        ELSE IF Raised(analysis.result)
        THEN [mcp |-> SessionSetup \o analysis.mcp, oracle |-> analysis.oracle,
              stages |-> <<"Start", "ImageEncoded">> \o analysis.stages,
              result |-> analysis.result]
        ELSE [mcp |-> SessionSetup \o analysis.mcp \o
                      [i \in DOMAIN functions_to_call |->
                          McpRequest("tools/call", functions_to_call[i].name,
                                     Some(functions_to_call[i].args))],
              oracle |-> analysis.oracle,
              stages |-> <<"Start", "ImageEncoded">> \o analysis.stages \o <<"Done">>,
              result |-> Return(None)]

(***************************************************************************)
(* FireflyClient instances and the httpx clients they send through.        *)
(* clients.httpx lists the httpx.Client objects (the Authorization header  *)
(* each holds, whether it is closed, whether the caller configured it      *)
(* beforehand), clients.instances the FireflyClient objects, clients.sent  *)
(* the requests the instances made.                                        *)
(***************************************************************************)
Bearer(token) == <<"Bearer ", token>>

HttpxClient(authorization, preconfigured) ==
    [authorization |-> authorization, closed |-> FALSE, preconfigured |-> preconfigured]

Instance(access_token, client) ==
    [access_token |-> access_token, client |-> client, ended |-> FALSE]

\* FireflyClient(host, access_token): the instance creates its own httpx
\* client with its headers (lines 268-277).
InitOwn(c, access_token) ==
    [c EXCEPT !.httpx = Append(@, HttpxClient(Some(Bearer(access_token)), FALSE)),
              !.instances = Append(@, Instance(access_token, Len(c.httpx) + 1))]

\* FireflyClient(host, access_token, httpx_client=k): self.client is the
\* caller's client, whose headers are updated in place (lines 257-267).
InitOver(c, access_token, k) ==
    [c EXCEPT !.httpx[k].authorization = Some(Bearer(access_token)),
              !.instances = Append(@, Instance(access_token, k))]

\* One request of instance i: self.client.request(...) sends the headers of
\* the httpx client; a closed httpx client raises RuntimeError instead.
SendThrough(c, i) ==
    LET h == c.httpx[c.instances[i].client]
    IN  [c EXCEPT !.sent = Append(@,
            [instance |-> i,
             authorization |-> h.authorization,
             scope_ended |-> c.instances[i].ended,
             outcome |-> IF h.closed THEN "RuntimeError" ELSE "sent"])]

\* __exit__ / close() of instance i (lines 279-288): self.client.close().
CloseInstance(c, i) ==
    [c EXCEPT !.httpx[c.instances[i].client].closed = TRUE,
              !.instances[i].ended = TRUE]

(***************************************************************************)
(* Inputs                                                                  *)
(***************************************************************************)
ValidKinds == {"withdrawal", "deposit", "transfer"}
OtherKinds == {"reconciliation", "refund"}

\* <<source_account, destination_account>> as given by callers: ids, names,
\* or left out.
AccountPairs ==
    {<<Some("1"), Some("2")>>, <<Some("Checking"), Some("Groceries")>>,
     <<Some("Checking"), Some("2")>>, <<None, Some("2")>>, <<Some("1"), None>>}

Requests ==
    {RawRequest(Some(k), p[1], p[2], Some("15.99"), Some("Lunch"), None) :
        k \in ValidKinds, p \in AccountPairs}
    \cup {RawRequest(Some(k), Some("Checking"), Some("Groceries"), Some("15.99"), Some("Lunch"), None) :
        k \in OtherKinds}
    \cup {RawRequest(Some("withdrawal"), Some("Checking"), Some("Groceries"), a, d, t) :
        <<a, d, t>> \in {<<None, Some("Lunch"), None>>,
                         <<Some("abc"), Some("Lunch"), None>>,
                         <<Some("8.50"), None, None>>,
                         <<Some("8.50"), Some("Bread"), Some("2025-01-15")>>,
                         <<Some("8.50"), Some("Bread"), Some("yesterday")>>,
                         <<Some("8.50"), Some("Bread"), Some("")>>}}

RequestLists == UNION {[1..n -> Requests] : n \in 0..MaxReqs}

Titles == {None, Some("Shopping Trip")}

\* What the ledger may do with the POST of create_transactions.
ToolReplies ==
    {Response(200, TransactionBody), Response(200, EmptyBody), Response(200, AccountsBody),
     Response(200, HtmlBody), Response(422, MessageBody), Response(500, HtmlBody),
     Failure("ConnectError"), Failure("ReadTimeout")}

Ids == {1, 999999}

\* Splits for direct calls of store_transaction: a transfer by ids and a
\* withdrawal by names.
SampleSplit(type, amount, description, source_id, source_name, destination_id, destination_name) ==
    [type |-> type, date |-> Today, amount |-> DecimalOf[amount],
     description |-> description,
     source_id |-> source_id, source_name |-> source_name,
     destination_id |-> destination_id, destination_name |-> destination_name,
     currency_code |-> None, category_name |-> None, budget_name |-> None,
     notes |-> None, tags |-> None, extra |-> <<>>]

SampleSplits ==
    {SampleSplit("transfer", "15.99", "Savings", Some(1), None, Some(2), None),
     SampleSplit("withdrawal", "8.50", "Bread", None, Some("Checking"), None, Some("Groceries"))}

SplitLists == UNION {[1..n -> SampleSplits] : n \in 0..MaxReqs}

\* The amounts, dates and additional keyword arguments helper calls are made with.
HelperAmounts ==
    {Amount("str", "123.45"), Amount("float", "123.45"), Amount("Decimal", "100.00"),
     Amount("float", "8.50"), Amount("str", "abc")}

HelperDates == {None, Some(Date(2025, 6, 23))}

HelperKeywords ==
    {<<>>, <<<<"group_title", "Shopping Trip">>>>, <<<<"currency_code", "EUR">>>>,
     <<<<"external_id", "r-17">>>>}

HelperCalls ==
    {HelperArguments(amount, "Salary", 1, 2, date, category_name, kwargs) :
        amount \in HelperAmounts, date \in HelperDates,
        category_name \in {None, Some("Food")}, kwargs \in HelperKeywords}

\* What the ledger may do with the POST of a helper.
HelperReplies ==
    {Response(200, TransactionBody), Response(422, MessageBody), Failure("ConnectError")}

\* The access tokens FireflyClient instances are constructed with.
Tokens == {"token-a", "token-b"}

Images == {"present", "missing"}

\* The account lists the orchestrator may have read from the server.
AccountLists == {<<>>, <<AccountView(Checking, Settings("", None)),
                         AccountView(Groceries, Settings("", None))>>}

\* Transactions as the oracle writes them: without a type, or with one.
Bread == RawRequest(None, Some("Checking"), Some("Groceries"), Some("8.50"), Some("Bread"), None)
Lunch == RawRequest(Some("deposit"), Some("Checking"), Some("Unknown"), Some("15.99"), Some("Lunch"), None)
Refund == RawRequest(Some("refund"), Some("Checking"), Some("Groceries"), Some("15.99"), Some("Lunch"), None)

OracleItems ==
    {OracleItem("message", "", Arguments(FALSE, None, None)),
     OracleItem("function_call", "create_transactions", Arguments(FALSE, None, None)),
     OracleItem("function_call", "create_transactions", Arguments(TRUE, None, None)),
     OracleItem("function_call", "create_transactions", Arguments(TRUE, Some(<<>>), None)),
     OracleItem("function_call", "create_transactions", Arguments(TRUE, Some(<<Bread>>), None)),
     OracleItem("function_call", "create_transactions",
                Arguments(TRUE, Some(<<Lunch, Refund>>), Some("Shopping Trip"))),
     OracleItem("function_call", "create_transaction", Arguments(TRUE, Some(<<Bread, Lunch>>), None))}

\* What the oracle may answer: a response with some output items, or the call fails.
OracleAnswers ==
    {Return(output) : output \in UNION {[1..n -> OracleItems] : n \in 0..MaxItems}}
    \cup {Raise(OtherError("APIConnectionError", <<"Connection error.">>))}

(***************************************************************************)
(* The state machine: one action per tool, resource and client operation;  *)
(* each runs the whole call.  A client operation is called on the client   *)
(* of a with-block, as the test fixtures do.  Finish hands the result to   *)
(* the caller, after which the next call starts from a clean slate.        *)
(***************************************************************************)
\* No FireflyClient instance has been constructed.
NoClients == [httpx |-> <<>>, instances |-> <<>>, sent |-> <<>>]

Init ==
    /\ config \in Configs
    /\ pc = "idle"
    /\ op = "none"
    /\ transactions = <<>>
    /\ group_title = None
    /\ callArg = None
    /\ http = <<>>
    /\ reply = None
    /\ splits = <<>>
    /\ session = <<>>
    /\ image = None
    /\ oracle = None
    /\ mcp = <<>>
    /\ given = None
    /\ stages = <<>>
    /\ clients = NoClients
    /\ result = Return(None)

\* The ledger acts only when it is sent a request: its answer is drawn for
\* the calls that get as far as store_transaction.
Unasked == Failure("unasked")
Asks(txs, title, cfg) == CallCreateTransactions(txs, title, Unasked, cfg).http # <<>>

create_transactions ==
    /\ pc = "idle"
    /\ \E txs \in RequestLists, title \in Titles :
          \E rep \in (IF Asks(txs, title, config) THEN ToolReplies ELSE {Unasked}) :
              \E out \in {CallCreateTransactions(txs, title, rep, config)} :
                  /\ transactions' = txs
                  /\ group_title' = title
                  /\ splits' = out.splits
                  /\ http' = out.http
                  /\ session' = out.session
                  /\ reply' = IF out.http = <<>> THEN None ELSE Some(rep)
                  /\ result' = out.result
    /\ pc' = "returned"
    /\ op' = "create_transactions"
    /\ UNCHANGED <<config, callArg, image, oracle, mcp,
                   given, stages, clients>>

get_accounts_resource ==
    /\ pc = "idle"
    /\ \E rep \in Replies :
          \E out \in {GetAccountsResource(rep, config)} :
              /\ http' = out.http
              /\ session' = out.session
              /\ reply' = IF out.http = <<>> THEN None ELSE Some(rep)
              /\ result' = out.result
    /\ pc' = "returned"
    /\ op' = "get_accounts_resource"
    /\ UNCHANGED <<config, transactions, group_title, callArg, splits, image, oracle, mcp,
                   given, stages, clients>>

get_accounts ==
    /\ pc = "idle"
    /\ \E rep \in Replies :
          /\ http' = Transmit(GetAccountsRequest, rep)
          /\ session' = ClientScope(Return("client"), Transmit(GetAccountsRequest, rep), ClientGetAccounts(rep))
          /\ reply' = Some(rep)
          /\ result' = ClientGetAccounts(rep)
    /\ pc' = "returned"
    /\ op' = "get_accounts"
    /\ UNCHANGED <<config, transactions, group_title, callArg, splits, image, oracle, mcp,
                   given, stages, clients>>

get_account ==
    /\ pc = "idle"
    /\ \E id \in Ids, rep \in Replies :
          /\ callArg' = Some(id)
          /\ http' = Transmit(GetAccountRequest(id), rep)
          /\ session' = ClientScope(Return("client"), Transmit(GetAccountRequest(id), rep), ClientGetAccount(id, rep))
          /\ reply' = Some(rep)
          /\ result' = ClientGetAccount(id, rep)
    /\ pc' = "returned"
    /\ op' = "get_account"
    /\ UNCHANGED <<config, transactions, group_title, splits, image, oracle, mcp,
                   given, stages, clients>>

store_transaction ==
    /\ pc = "idle"
    /\ \E sp \in SplitLists, title \in Titles, rep \in Replies :
          /\ splits' = sp
          /\ group_title' = title
          /\ http' = Transmit(StoreTransactionRequest(sp, title), rep)
          /\ session' = ClientScope(Return("client"), Transmit(StoreTransactionRequest(sp, title), rep), ClientStoreTransaction(sp, title, rep))
          /\ reply' = Some(rep)
          /\ result' = ClientStoreTransaction(sp, title, rep)
    /\ pc' = "returned"
    /\ op' = "store_transaction"
    /\ UNCHANGED <<config, transactions, callArg, image, oracle, mcp,
                   given, stages, clients>>

delete_transaction ==
    /\ pc = "idle"
    /\ \E id \in Ids, rep \in Replies :
          /\ callArg' = Some(id)
          /\ http' = Transmit(DeleteTransactionRequest(id), rep)
          /\ session' = ClientScope(Return("client"), Transmit(DeleteTransactionRequest(id), rep), ClientDeleteTransaction(id, rep))
          /\ reply' = Some(rep)
          /\ result' = ClientDeleteTransaction(id, rep)
    /\ pc' = "returned"
    /\ op' = "delete_transaction"
    /\ UNCHANGED <<config, transactions, group_title, splits, image, oracle, mcp,
                   given, stages, clients>>

delete_transaction_journal ==
    /\ pc = "idle"
    /\ \E id \in Ids, rep \in Replies :
          /\ callArg' = Some(id)
          /\ http' = Transmit(DeleteTransactionJournalRequest(id), rep)
          /\ session' = ClientScope(Return("client"), Transmit(DeleteTransactionJournalRequest(id), rep), ClientDeleteTransactionJournal(id, rep))
          /\ reply' = Some(rep)
          /\ result' = ClientDeleteTransactionJournal(id, rep)
    /\ pc' = "returned"
    /\ op' = "delete_transaction_journal"
    /\ UNCHANGED <<config, transactions, group_title, splits, image, oracle, mcp,
                   given, stages, clients>>

create_withdrawal ==
    /\ pc = "idle"
    /\ \E a \in HelperCalls, rep \in HelperReplies :
          \E out \in {CreateWithdrawal(a, rep)} :
              /\ given' = Some(a)
              /\ splits' = out.splits
              /\ http' = out.http
              /\ session' = ClientScope(Return("client"), out.http, out.result)
              /\ reply' = IF out.http = <<>> THEN None ELSE Some(rep)
              /\ result' = out.result
    /\ pc' = "returned"
    /\ op' = "create_withdrawal"
    /\ UNCHANGED <<config, transactions, group_title, callArg, image, oracle, mcp,
                   stages, clients>>

create_deposit ==
    /\ pc = "idle"
    /\ \E a \in HelperCalls, rep \in HelperReplies :
          \E out \in {CreateDeposit([a EXCEPT !.source = "Employer"], rep)} :
              /\ given' = Some([a EXCEPT !.source = "Employer"])
              /\ splits' = out.splits
              /\ http' = out.http
              /\ session' = ClientScope(Return("client"), out.http, out.result)
              /\ reply' = IF out.http = <<>> THEN None ELSE Some(rep)
              /\ result' = out.result
    /\ pc' = "returned"
    /\ op' = "create_deposit"
    /\ UNCHANGED <<config, transactions, group_title, callArg, image, oracle, mcp,
                   stages, clients>>

create_transfer ==
    /\ pc = "idle"
    /\ \E a \in HelperCalls, rep \in HelperReplies :
          \E out \in {CreateTransfer([a EXCEPT !.category_name = None], rep)} :
              /\ given' = Some([a EXCEPT !.category_name = None])
              /\ splits' = out.splits
              /\ http' = out.http
              /\ session' = ClientScope(Return("client"), out.http, out.result)
              /\ reply' = IF out.http = <<>> THEN None ELSE Some(rep)
              /\ result' = out.result
    /\ pc' = "returned"
    /\ op' = "create_transfer"
    /\ UNCHANGED <<config, transactions, group_title, callArg, image, oracle, mcp,
                   stages, clients>>

encode_image_to_base64 ==
    /\ pc = "idle"
    /\ \E img \in Images :
          /\ image' = Some(img)
          /\ result' = EncodeImageToBase64(img)
    /\ pc' = "returned"
    /\ op' = "encode_image_to_base64"
    /\ UNCHANGED <<config, transactions, group_title, callArg, http, reply, splits,
                   session, oracle, mcp,
                   given, stages, clients>>

analyze_receipt ==
    /\ pc = "idle"
    /\ \E accounts \in AccountLists, failing \in PromptFailures, answer \in OracleAnswers :
          \E out \in {AnalyzeReceipt(accounts, failing, answer)} :
              /\ mcp' = out.mcp
              /\ oracle' = out.oracle
              /\ stages' = out.stages
              /\ result' = out.result
    /\ pc' = "returned"
    /\ op' = "analyze_receipt"
    /\ UNCHANGED <<config, transactions, group_title, callArg, http, reply, splits,
                   session, image,
                   given, clients>>

main ==
    /\ pc = "idle"
    /\ \E img \in Images, accounts \in AccountLists, failing \in PromptFailures,
          answer \in OracleAnswers :
          \E out \in {Main(img, accounts, failing, answer)} :
              /\ image' = Some(img)
              /\ mcp' = out.mcp
              /\ oracle' = out.oracle
              /\ stages' = out.stages
              /\ result' = out.result
    /\ pc' = "returned"
    /\ op' = "main"
    /\ UNCHANGED <<config, transactions, group_title, callArg, http, reply, splits, session,
                   given, clients>>

\* The caller creates an httpx client of its own configuration, to hand it
\* to FireflyClient instances (as papermes_shared.shared.http_client).
httpx_Client ==
    /\ pc \in {"idle", "clients"}
    /\ \A k \in DOMAIN clients.httpx : ~clients.httpx[k].preconfigured
    /\ clients' = [clients EXCEPT !.httpx = Append(@, HttpxClient(None, TRUE))]
    /\ pc' = "clients"
    /\ op' = "httpx_Client"
    /\ UNCHANGED <<config, transactions, group_title, callArg, http, reply, splits,
                   session, image, oracle, mcp, given, stages, result>>

\* FireflyClient(host, access_token) or FireflyClient(host, access_token,
\* httpx_client=...).
FireflyClient_init ==
    /\ pc \in {"idle", "clients"}
    /\ Len(clients.instances) < MaxInstances
    /\ \E access_token \in Tokens :
          \/ clients' = InitOwn(clients, access_token)
          \/ \E k \in DOMAIN clients.httpx :
                /\ clients.httpx[k].preconfigured
                /\ clients' = InitOver(clients, access_token, k)
    /\ pc' = "clients"
    /\ op' = "FireflyClient"
    /\ UNCHANGED <<config, transactions, group_title, callArg, http, reply, splits,
                   session, image, oracle, mcp, given, stages, result>>

\* An instance makes a request (_make_request, line 310).
request ==
    /\ pc = "clients"
    /\ Len(clients.sent) < MaxSent
    /\ \E i \in DOMAIN clients.instances : clients' = SendThrough(clients, i)
    /\ pc' = "clients"
    /\ op' = "request"
    /\ UNCHANGED <<config, transactions, group_title, callArg, http, reply, splits,
                   session, image, oracle, mcp, given, stages, result>>

\* The scope of an instance ends: __exit__ calls close().
close ==
    /\ pc = "clients"
    /\ \E i \in DOMAIN clients.instances :
          /\ ~clients.instances[i].ended
          /\ clients' = CloseInstance(clients, i)
    /\ pc' = "clients"
    /\ op' = "close"
    /\ UNCHANGED <<config, transactions, group_title, callArg, http, reply, splits,
                   session, image, oracle, mcp, given, stages, result>>

Finish ==
    /\ pc \in {"returned", "clients"}
    /\ pc' = "idle"
    /\ op' = "none"
    /\ transactions' = <<>>
    /\ group_title' = None
    /\ callArg' = None
    /\ http' = <<>>
    /\ reply' = None
    /\ splits' = <<>>
    /\ session' = <<>>
    /\ image' = None
    /\ oracle' = None
    /\ mcp' = <<>>
    /\ given' = None
    /\ stages' = <<>>
    /\ clients' = NoClients
    /\ result' = Return(None)
    /\ UNCHANGED config

Next ==
    \/ create_transactions
    \/ get_accounts_resource
    \/ get_accounts
    \/ get_account
    \/ store_transaction
    \/ delete_transaction
    \/ delete_transaction_journal
    \/ create_withdrawal
    \/ create_deposit
    \/ create_transfer
    \/ encode_image_to_base64
    \/ analyze_receipt
    \/ main
    \/ httpx_Client
    \/ FireflyClient_init
    \/ request
    \/ close
    \/ Finish

Spec == Init /\ [][Next]_vars

(***************************************************************************)
(* Properties                                                              *)
(***************************************************************************)
\* A call of the create_transactions tool has ended.
ToolCalled == pc = "returned" /\ op = "create_transactions"

\* ... and every request was a TransactionRequest, so that the function ran.
ToolRan == ToolCalled /\ \A i \in DOMAIN transactions : IsTransactionRequest(transactions[i])

\* The loop appends one split per request and stops at the first request it
\* cannot map: splits[i] is the split produced from transactions[i].
KindOf(i) == Get(transactions[i].type)

\* The requests sent that carry a transaction group (store_transaction was called).
StoredGroups == {i \in DOMAIN http : http[i].method = "POST"}

ClientOps ==
    {"get_accounts", "get_account", "store_transaction", "delete_transaction",
     "delete_transaction_journal", "create_withdrawal", "create_deposit",
     "create_transfer"}
ClientCalled == pc = "returned" /\ op \in ClientOps

ReplyIsError ==
    IsSome(reply) /\ Get(reply).kind = "response" /\ Get(reply).status_code >= 400
ReplyIsFailure == IsSome(reply) /\ Get(reply).kind = "failure"

C2_TransferById ==
    ToolRan =>
        \A i \in DOMAIN splits :
            KindOf(i) = "transfer" =>
                /\ IsSome(splits[i].source_id)
                /\ IsSome(splits[i].destination_id)
                /\ splits[i].source_id = CoerceId(transactions[i].source_account)
                /\ splits[i].destination_id = CoerceId(transactions[i].destination_account)
                /\ IsNone(splits[i].source_name)
                /\ IsNone(splits[i].destination_name)

\* C3: every split produced from a deposit request has source_name and
\* destination_id populated, and has neither source_id nor destination_name.
C3_DepositNameToId ==
    ToolRan =>
        \A i \in DOMAIN splits :
            KindOf(i) = "deposit" =>
                /\ IsSome(splits[i].source_name)
                /\ IsSome(splits[i].destination_id)
                /\ IsNone(splits[i].source_id)
                /\ IsNone(splits[i].destination_name)

\* The result of the call is a returned failure dict.
ReturnedFailure ==
    /\ Returned(result)
    /\ Get(result.value).success = FALSE
    /\ "error" \in Get(result.value).keys

InvalidKindAt(i) == KindOf(i) \notin ValidKinds

\* The loop of create_transactions was entered: the client was created.
LoopEntered == ToolRan /\ Returned(GetFireflyClient(config))

\* C4 (as stated): a call containing a request of a kind outside {withdrawal,
\* deposit, transfer}, at whatever position in the list, returns
\* success = false with an error text that contains that kind, and sends no
\* HTTP request.  Stated for the calls that could create their client.
C4_InvalidKindAnywhereReported ==
    LoopEntered =>
        \A i \in DOMAIN transactions :
            InvalidKindAt(i) =>
                /\ ReturnedFailure
                /\ TextContains(Get(result.value).error, KindOf(i))
                /\ http = <<>>

\* C4 (amended): such a call returns success = false and sends no HTTP
\* request; the error text contains the kind of the first such request
\* whenever the loop reached that request, that is, the client was created
\* and every request before it produced a split.
C4_InvalidKindRejected ==
    ToolRan =>
        \A i \in DOMAIN transactions :
            InvalidKindAt(i) =>
                /\ ReturnedFailure
                /\ http = <<>>
                /\ (LoopEntered /\ Len(splits) = i - 1)
                   => TextContains(Get(result.value).error, KindOf(i))

C4_Witness ==
    /\ ToolRan
    /\ Len(transactions) = 2
    /\ ~InvalidKindAt(1)
    /\ InvalidKindAt(2)
    /\ Len(splits) = 1
    /\ ReturnedFailure
    /\ TextContains(Get(result.value).error, KindOf(2))
    /\ http = <<>>

ExactlyOne(a, b) == IsSome(a) # IsSome(b)

\* C5: every split handed to store_transaction by create_transactions has
\* exactly one of source_id/source_name and exactly one of
\* destination_id/destination_name populated.
C5_ExactlyOneReference ==
    (ToolRan /\ StoredGroups # {}) =>
        \A i \in DOMAIN splits :
            /\ ExactlyOne(splits[i].source_id, splits[i].source_name)
            /\ ExactlyOne(splits[i].destination_id, splits[i].destination_name)

\* One of amount, description, source, destination is absent from request i.
MandatoryAbsent(i) ==
    \/ IsNone(transactions[i].amount)
    \/ IsNone(transactions[i].description)
    \/ IsNone(transactions[i].source_account)
    \/ IsNone(transactions[i].destination_account)

\* The call ended in a validation failure: the request was refused as no
\* TransactionRequest, or the tool returned success = false.
ValidationFailure ==
    \/ Raised(result) /\ Get(result.raised).cls = "ValidationError"
    \/ ReturnedFailure

\* C6: a request lacking amount, description, source or destination yields a
\* validation failure, nothing is posted for it, and no split produced has a
\* value the request did not give for these fields.
C6_MandatoryInputsRequired ==
    ToolCalled =>
        /\ (\E i \in DOMAIN transactions : MandatoryAbsent(i)) =>
                (ValidationFailure /\ http = <<>>)
        /\ ToolRan =>
             \A i \in DOMAIN splits :
                /\ splits[i].amount = DecimalOf[Get(transactions[i].amount)]
                /\ splits[i].description = Get(transactions[i].description)
                /\ IsNone(transactions[i].source_account) =>
                        IsNone(splits[i].source_id) /\ IsNone(splits[i].source_name)
                /\ IsNone(transactions[i].destination_account) =>
                        IsNone(splits[i].destination_id) /\ IsNone(splits[i].destination_name)

C8_AccountsEmptyOnError ==
    (pc = "returned" /\ op = "get_accounts_resource") =>
        /\ Returned(result)
        /\ (ReplyIsFailure \/ ReplyIsError) => Get(result.value) = <<>>

C8_Witness ==
    /\ pc = "returned"
    /\ op = "get_accounts_resource"
    /\ reply = Some(Failure("ConnectError"))
    /\ result = Return(<<>>)

\* C9: each client operation raises FireflyAPIError carrying the response's
\* status when the ledger answers with a status >= 400.
C9_StatusErrorRaised ==
    (ClientCalled /\ ReplyIsError) =>
        /\ Raised(result)
        /\ Get(result.raised).cls = "FireflyAPIError"
        /\ Get(result.raised).status_code = Some(Get(reply).status_code)

\* Deleting a transaction group the ledger does not know.
C9_Witness ==
    /\ pc = "returned"
    /\ op = "delete_transaction"
    /\ callArg = Some(999999)
    /\ reply = Some(Response(404, BothBody))
    /\ Raised(result)
    /\ Get(result.raised).status_code = Some(404)

\* C10: a request that fails in transport or times out raises FireflyAPIError
\* without a status code; a FireflyAPIError has a status code exactly when the
\* ledger answered with a status >= 400.
C10_TransportErrorHasNoStatus ==
    ClientCalled =>
        /\ ReplyIsFailure =>
              /\ Raised(result)
              /\ Get(result.raised).cls = "FireflyAPIError"
              /\ IsNone(Get(result.raised).status_code)
        /\ (Raised(result) /\ Get(result.raised).cls = "FireflyAPIError") =>
              (IsSome(Get(result.raised).status_code) <=> ReplyIsError)

C10_Witness ==
    /\ ClientCalled
    /\ reply = Some(Failure("ReadTimeout"))
    /\ Raised(result)
    /\ Get(result.raised).cls = "FireflyAPIError"
    /\ IsNone(Get(result.raised).status_code)

\* The ledger answered with a success status and an empty response body.
ReplyIsEmptySuccess ==
    /\ IsSome(reply)
    /\ Get(reply).kind = "response"
    /\ Get(reply).status_code < 400
    /\ ~HasContent(Get(reply).body)

\* C11: get_accounts returns an AccountsList page (possibly empty) and raises
\* nothing when the ledger answers with a success status and an empty body.
C11_EmptyBodyGivesPage ==
    (pc = "returned" /\ op = "get_accounts" /\ ReplyIsEmptySuccess) => Returned(result)

\* The ledger answered with a status below 400.
ReplyIsSuccess ==
    IsSome(reply) /\ Get(reply).kind = "response" /\ Get(reply).status_code < 400

\* The path a delete operation addresses, by the operation.
DeletePath ==
    IF op = "delete_transaction" THEN "/transactions/" ELSE "/transaction-journals/"

\* C12: delete_transaction(id) and delete_transaction_journal(id) each send
\* exactly one DELETE request, to /transactions/{id} and
\* /transaction-journals/{id}, and return without error whenever the status
\* is below 400, whatever the body (empty, blank, not JSON, JSON).
C12_DeleteOnceAndTolerant ==
    (pc = "returned" /\ op \in {"delete_transaction", "delete_transaction_journal"}) =>
        /\ Len(http) = 1
        /\ http[1].method = "DELETE"
        /\ http[1].endpoint = <<DeletePath, ToString(Get(callArg))>>
        /\ ReplyIsSuccess => result = Return(None)

\* A journal is deleted and the ledger answers 204 with no body.
C12_Witness ==
    /\ pc = "returned"
    /\ op = "delete_transaction_journal"
    /\ callArg = Some(1)
    /\ reply = Some(Response(204, EmptyBody))
    /\ http = <<Request("DELETE", <<"/transaction-journals/", "1">>, None)>>
    /\ result = Return(None)

\* The message the ledger put in its answer, if it put one.
LedgerMessage == Get(reply).body.json.message

\* C13: one call of store_transaction sends exactly one POST /transactions;
\* when the ledger rejects it (status >= 400), the call raises FireflyAPIError
\* with the ledger's status and, where the answer carries a message, exactly
\* that message, and still only the one POST has been sent.
C13_StoreOnceNoRetry ==
    (pc = "returned" /\ op = "store_transaction") =>
        /\ Len(http) = 1
        /\ http[1].method = "POST"
        /\ http[1].endpoint = <<"/transactions">>
        /\ ReplyIsError =>
              /\ Raised(result)
              /\ Get(result.raised).cls = "FireflyAPIError"
              /\ Get(result.raised).status_code = Some(Get(reply).status_code)
              /\ IsSome(LedgerMessage) => Get(result.raised).message = LedgerMessage

\* The ledger rejects a two-split group as a duplicate.
C13_Witness ==
    /\ pc = "returned"
    /\ op = "store_transaction"
    /\ Len(splits) = 2
    /\ reply = Some(Response(422, MessageBody))
    /\ Len(http) = 1
    /\ Raised(result)
    /\ Get(result.raised).message = <<"Duplicate of transaction #12">>
    /\ Get(result.raised).status_code = Some(422)

\* The call created a client: a client operation's with-block, or a server
\* handler whose settings let FireflyClient(...) be constructed.
ClientCreated ==
    \/ ClientCalled
    \/ /\ pc = "returned"
       /\ op = "get_accounts_resource"
       /\ Returned(GetFireflyClient(config))
    \/ LoopEntered

\* C14: when the scope of a client has ended, its HTTP session has been
\* opened once and closed once, the close being the last event, whether the
\* block returned or raised; every request of the call was sent on the
\* session before the close.
C14_SessionClosedAtScopeEnd ==
    pc = "returned" =>
        /\ ClientCreated =>
              /\ Len(session) = Len(http) + 2
              /\ session[1] = "open"
              /\ session[Len(session)] = "close"
              /\ \A i \in 2..(Len(session) - 1) : session[i] = "request"
        /\ ~ClientCreated => (session = <<>> /\ http = <<>>)

\* The block of create_transactions is left by an exception: the ledger
\* cannot be reached.
C14_Witness ==
    /\ ToolRan
    /\ reply = Some(Failure("ConnectError"))
    /\ ReturnedFailure
    /\ session = <<"open", "request", "close">>

\* The oracle was invoked and answered with a response.
OracleResponded == IsSome(oracle) /\ Returned(Get(oracle))
OracleOutput == Get(Get(oracle).value)

\* ... whose output contains no function call.
NoFunctionCalls ==
    OracleResponded /\ \A i \in DOMAIN OracleOutput : OracleOutput[i].type # "function_call"

\* The tool calls the orchestrator sent to the server; the ledger is reached
\* from the orchestrator through them only.
ToolCalls == SelectSeq(mcp, LAMBDA r : r.method = "tools/call")

Entries ==
    IF op = "analyze_receipt" /\ Returned(result) THEN Get(result.value)
    ELSE IF op = "main"
    THEN [i \in DOMAIN ToolCalls |->
             [name |-> ToolCalls[i].name, args |-> Get(ToolCalls[i].arguments)]]
    ELSE <<>>

FunctionCalls == SelectSeq(OracleOutput, LAMBDA item : item.type = "function_call")

AnalysisReturned ==
    /\ pc = "returned"
    /\ OracleResponded
    /\ \/ op = "analyze_receipt" /\ Returned(result)
       \/ op = "main" /\ Returned(result)

C17_MissingImagePropagates ==
    (pc = "returned" /\ image = Some("missing")) =>
        /\ Raised(result)
        /\ Get(result.raised).cls = "FileNotFoundError"
        /\ IsNone(oracle)

\* The ledger answered the accounts request with a page of accounts.
AccountsPageReceived ==
    /\ pc = "returned"
    /\ op \in {"get_accounts", "get_accounts_resource"}
    /\ ReplyIsSuccess
    /\ Get(reply).body.json.kind = "object"
    /\ IsSome(Get(reply).body.json.data)
    /\ Get(Get(reply).body.json.data).shape = "accounts"

PageItems == Get(Get(reply).body.json.data).items

\* C18: a page of accounts is parsed whatever the accounts' kinds are: the
\* call returns every account of the page, each with the kind the ledger
\* gave, also when a kind is outside the known enumeration.
C18_UnknownKindPreserved ==
    AccountsPageReceived =>
        /\ Returned(result)
        /\ Len(Get(result.value)) = Len(PageItems)
        /\ \A i \in DOMAIN PageItems : Get(result.value)[i].type = PageItems[i].type

\* C19: every POST /transactions sent, by store_transaction or by
\* create_transactions, carries a group with at least one split.
C19_GroupNeverEmpty ==
    \A i \in StoredGroups : Len(Get(http[i].data).transactions) >= 1

\* The tool returned success = true.
ToolSucceeded == ToolRan /\ Returned(result) /\ Get(result.value).success = TRUE

\* The sum of amounts given as decimal texts with two places, in hundredths.
RECURSIVE SumOfAmounts(_)
SumOfAmounts(texts) ==
    IF texts = <<>> THEN 0 ELSE DecimalOf[Head(texts)].coef + SumOfAmounts(Tail(texts))

\* The transaction entries of the group posted by the call.
PostedEntries == Get(http[1].data).transactions

\* C20: a successful call of create_transactions with N requests has built N
\* splits, the i-th from the i-th request, and sent them in one POST
\* /transactions as one group of N entries, the i-th entry carrying the i-th
\* request's kind, amount and description; the entries' amounts sum to the
\* requests' amounts.
C20_OneSplitPerRequestOneGroup ==
    ToolSucceeded =>
        /\ Len(splits) = Len(transactions)
        /\ Len(http) = 1
        /\ http[1].method = "POST"
        /\ http[1].endpoint = <<"/transactions">>
        /\ Len(PostedEntries) = Len(transactions)
        /\ IsSome(group_title) => Get(http[1].data).group_title = Get(group_title)
        /\ \A i \in DOMAIN transactions :
              /\ splits[i].type = KindOf(i)
              /\ splits[i].amount = DecimalOf[Get(transactions[i].amount)]
              /\ splits[i].description = Get(transactions[i].description)
              /\ PostedEntries[i].type = KindOf(i)
              /\ PostedEntries[i].amount = Get(transactions[i].amount)
              /\ PostedEntries[i].description = Get(transactions[i].description)
        /\ SumOfAmounts([i \in DOMAIN PostedEntries |-> PostedEntries[i].amount])
              = SumOfAmounts([i \in DOMAIN transactions |-> Get(transactions[i].amount)])
        /\ TextContains(Get(result.value).message, ToString(Len(transactions)))

\* Two requests, 15.99 and 8.50, stored as one group of two entries that sum
\* to 24.49.
C20_Witness ==
    /\ ToolSucceeded
    /\ group_title = Some("Shopping Trip")
    /\ Len(transactions) = 2
    /\ Len(http) = 1
    /\ Len(PostedEntries) = 2
    /\ PostedEntries[1].amount = "15.99"
    /\ PostedEntries[2].amount = "8.50"
    /\ SumOfAmounts(<<PostedEntries[1].amount, PostedEntries[2].amount>>) = 2449
    /\ Get(result.value).transaction_id = Some(42)

\* A helper call has ended.
Helpers == {"create_withdrawal", "create_deposit", "create_transfer"}
HelperCalled == pc = "returned" /\ op \in Helpers

\* Two decimals denote the same number.
SameNumber(d, e) == d.coef * Pow10(e.places) = e.coef * Pow10(d.places)

\* The decimal string Python writes for each amount of the helper calls:
\* str(Decimal("123.45")), str(Decimal(str(8.5))), ...
WireText ==
    (Amount("str", "123.45") :> "123.45") @@ (Amount("float", "123.45") :> "123.45") @@
    (Amount("Decimal", "100.00") :> "100.00") @@ (Amount("float", "8.50") :> "8.5")

\* C21: the amount of a split is the exact decimal given (a str or a Decimal
\* digit for digit, a number of two decimal places as that number), and it is
\* written to the wire as that decimal's string: "123.45" -> 123.45 ->
\* "123.45".  Likewise for the amounts given to the mapper.
C21_AmountRoundTrip ==
    /\ (HelperCalled /\ splits # <<>>) =>
          /\ SameNumber(splits[1].amount, DecimalOf[Get(given).amount.text])
          /\ Get(given).amount.form \in {"str", "Decimal"} =>
                splits[1].amount = DecimalOf[Get(given).amount.text]
          /\ http # <<>> =>
                Get(http[1].data).transactions[1].amount = WireText[Get(given).amount]
    /\ (ToolRan /\ http # <<>>) =>
          \A i \in DOMAIN transactions :
              Get(http[1].data).transactions[i].amount = Get(transactions[i].amount)

\* A deposit of "123.45" is stored.
C21_Witness ==
    /\ HelperCalled
    /\ op = "create_deposit"
    /\ Get(given).amount = Amount("str", "123.45")
    /\ splits[1].amount = [coef |-> 12345, places |-> 2]
    /\ Len(http) = 1
    /\ Get(http[1].data).transactions[1].amount = "123.45"
    /\ Returned(result)

\* The kind of split each helper builds.
HelperKind ==
    ("create_withdrawal" :> "withdrawal") @@ ("create_deposit" :> "deposit") @@
    ("create_transfer" :> "transfer")

\* The account references of a split are those the helper was given: ids for
\* a withdrawal and a transfer, the source's name and the destination's id
\* for a deposit.
AccountsAsGiven(split, a) ==
    /\ split.destination_id = Some(a.destination)
    /\ split.destination_name = None
    /\ IF op = "create_deposit"
       THEN split.source_name = Some(a.source) /\ split.source_id = None
       ELSE split.source_id = Some(a.source) /\ split.source_name = None

\* C22: a helper calls store_transaction once, with one split of the helper's
\* kind that carries the amount, the description, the date and the account
\* references of the call, and store_transaction sends that one split in at
\* most one POST.  (A helper whose amount is no decimal raises before the
\* call.)
C22_OneSplitOfHelperKind ==
    HelperCalled =>
        /\ Len(splits) <= 1
        /\ Len(http) <= 1
        /\ Get(given).amount.text \in DOMAIN DecimalOf => Len(splits) = 1
        /\ splits # <<>> =>
              /\ splits[1].type = HelperKind[op]
              /\ SameNumber(splits[1].amount, DecimalOf[Get(given).amount.text])
              /\ splits[1].description = Get(given).description
              /\ IsSome(Get(given).date) => splits[1].date = Get(Get(given).date)
              /\ AccountsAsGiven(splits[1], Get(given))
        /\ http # <<>> =>
              /\ http[1].method = "POST"
              /\ http[1].endpoint = <<"/transactions">>
              /\ Get(http[1].data).transactions = <<DumpSplit(splits[1])>>
              /\ Get(http[1].data).transactions[1].type = HelperKind[op]

\* A transfer from account 1 to account 2 is stored in one POST.
C22_Witness ==
    /\ HelperCalled
    /\ op = "create_transfer"
    /\ Len(splits) = 1
    /\ Len(http) = 1
    /\ splits[1].type = "transfer"
    /\ splits[1].source_id = Some(1)
    /\ splits[1].destination_id = Some(2)
    /\ splits[1].date = Date(2025, 6, 23)
    /\ Get(http[1].data).transactions[1].source_id = 1
    /\ Returned(result)

\* C23: the date of a split is today only when the caller gave none; a date
\* the caller supplied is the date of the resulting split, for the mapper's
\* requests and for the helpers' calls.
C23_DateDefaultOnlyWhenAbsent ==
    /\ ToolRan =>
          \A i \in DOMAIN splits :
              IsSome(transactions[i].date) =>
                  IsoFormat(splits[i].date) = Get(transactions[i].date)
    /\ (HelperCalled /\ splits # <<>>) =>
          /\ IsSome(Get(given).date) => splits[1].date = Get(Get(given).date)
          /\ IsNone(Get(given).date) => splits[1].date = Today

\* The amount of the helper call is a decimal, so that the split is built.
HelperSplitBuilt == HelperCalled /\ Get(given).amount.text \in DOMAIN DecimalOf

\* C24: every additional keyword argument of a helper call is a field, with
\* the value given, of the one split the helper stores, for create_withdrawal,
\* create_deposit and create_transfer alike.
C24_KeywordsReachSplit ==
    HelperSplitBuilt =>
        \A i \in DOMAIN Get(given).kwargs :
            /\ Len(http) = 1
            /\ Get(given).kwargs[i][1] \in DOMAIN Get(http[1].data).transactions[1]
            /\ Get(http[1].data).transactions[1][Get(given).kwargs[i][1]]
                  = Get(given).kwargs[i][2]

\* The message the priority order message, error, raw text, generic gives for
\* an error response; the generic text only when the raw text is empty.
MessageByPriority(response) ==
    LET json == response.body.json
    IN  IF json.kind = "object" /\ IsSome(json.message) THEN <<Get(json.message)>>
        ELSE IF json.kind = "object" /\ IsSome(json.error) THEN <<Get(json.error)>>
        ELSE IF response.body.text # "" THEN <<response.body.text>>
        ELSE <<"HTTP ", ToString(response.status_code)>>

\* C25: the message of the error raised for a response of status >= 400 is
\* the body's 'message', else its 'error', else the raw response text, else
\* the generic "HTTP <status>", which is used only when the raw text is empty.
C25_ErrorMessagePriority ==
    (ClientCalled /\ ReplyIsError) =>
        /\ Raised(result)
        /\ Get(result.raised).message = MessageByPriority(Get(reply))

\* The stages of an analysis, in the order the claim gives them.
StageOrder == <<"Start", "ImageEncoded", "PromptsResolved", "OracleInvoked",
                "OutputNormalized", "Done">>

\* An analysis has ended: main(), or analyze_receipt called with an image
\* its caller has encoded.
AnalysisEnded == pc = "returned" /\ op \in {"main", "analyze_receipt"}
StagesPassed == IF op = "main" THEN stages ELSE <<"Start", "ImageEncoded">> \o stages

IsPrefix(s, t) == Len(s) <= Len(t) /\ s = SubSeq(t, 1, Len(s))
Occurrences(s, x) == Cardinality({i \in DOMAIN s : s[i] = x})
PromptsAsked ==
    {i \in DOMAIN mcp : mcp[i].method = "prompts/get"}

C26_OracleRaisedWitness ==
    /\ pc = "returned"
    /\ op = "main"
    /\ IsSome(oracle)
    /\ Raised(Get(oracle))
    /\ stages = SubSeq(StageOrder, 1, 4)

\* The POST /transactions requests sent, and the group title the caller gave.
Posts == {i \in DOMAIN http : http[i].method = "POST" /\ http[i].endpoint = <<"/transactions">>}
TitleGiven ==
    IF op \in Helpers THEN KeywordOrNone(Get(given).kwargs, "group_title") ELSE group_title

\* An entry of a body has exactly the optional fields its split was given,
\* each with the value given.
OptionalFieldsAsGiven(entry, split) ==
    \A k \in SplitOptionalFields :
        /\ k \in DOMAIN entry <=> IsSome(split[k])
        /\ IsSome(split[k]) => entry[k] = Get(split[k])

\* C27: in the body of every POST /transactions, an optional field that was
\* left absent (of a split, or the group's title) is no key of the body, and
\* a field that was supplied is a key with the value supplied.
C27_AbsentOmittedSuppliedKept ==
    \A i \in Posts :
        LET body == Get(http[i].data)
        IN  /\ "group_title" \in DOMAIN body <=> IsSome(TitleGiven)
            /\ IsSome(TitleGiven) => body.group_title = Get(TitleGiven)
            /\ {"error_if_duplicate_hash", "apply_rules", "fire_webhooks"} \subseteq DOMAIN body
            /\ Len(body.transactions) = Len(splits)
            /\ \A j \in DOMAIN splits :
                  /\ OptionalFieldsAsGiven(body.transactions[j], splits[j])
                  /\ {"type", "date", "amount", "description"} \subseteq DOMAIN body.transactions[j]
                  /\ \A e \in DOMAIN splits[j].extra :
                        /\ splits[j].extra[e][1] \in DOMAIN body.transactions[j]
                        /\ body.transactions[j][splits[j].extra[e][1]] = splits[j].extra[e][2]
            /\ (op = "create_withdrawal" /\ IsNone(Get(given).category_name)) =>
                  "category_name" \notin DOMAIN body.transactions[1]
            /\ (op = "create_withdrawal" /\ IsSome(Get(given).category_name)) =>
                  body.transactions[1].category_name = Get(Get(given).category_name)

\* A withdrawal with a category and no title: the body has category_name
\* and neither group_title nor currency_code.
C27_Witness ==
    /\ HelperCalled
    /\ op = "create_withdrawal"
    /\ Len(http) = 1
    /\ Get(given).category_name = Some("Food")
    /\ Get(given).kwargs = <<>>
    /\ DOMAIN Get(http[1].data).transactions[1] =
          {"type", "date", "amount", "description", "source_id", "destination_id",
           "category_name"}
    /\ "group_title" \notin DOMAIN Get(http[1].data)

\* C28: every request an instance sends carries the bearer token of that
\* instance in its Authorization header, also when two instances were
\* constructed over one pre-configured httpx client; and a request fails on
\* a closed client only if the scope of the instance that makes it has ended.
C28_OwnTokenOnEveryRequest ==
    \A k \in DOMAIN clients.sent :
        LET s == clients.sent[k]
        IN  /\ s.outcome = "sent" =>
                  s.authorization = Some(Bearer(clients.instances[s.instance].access_token))
            /\ s.outcome = "RuntimeError" => s.scope_ended

\* C29: a request that times out is reported by the error 'Request timed
\* out', any other transport failure by 'Request failed: ...'.
C29_TimeoutReportedAsTimedOut ==
    (ClientCalled /\ ReplyIsFailure) =>
        /\ Raised(result)
        /\ IF IsTimeoutException(Get(reply).exc)
           THEN Get(result.raised).message = <<"Request timed out">>
           ELSE Get(result.raised).message[1] = "Request failed: "

\* Two transactions differ in their type at most.
SameButType(t, u) == [t EXCEPT !.type = u.type] = u

====
